---- MODULE Spec2Model ----
(***************************************************************************)
(* Package shutdown (github.com/icza/shutdown): the signal channel sigch,  *)
(* the dispatcher goroutine started by init(), the shutdown channel c / C, *)
(* InitiateManual(), Initiated() and the shared WaitGroup Wg, together     *)
(* with the goroutines that use them (receivers on C, registered workers,  *)
(* callers of Wg.Wait()).                                                  *)
(***************************************************************************)
EXTENDS Integers, Sequences, FiniteSets

\* ---------------------------------------------------------------- bounds
NReaders == 2
NWorkers == 3
NWaiters == 1
MaxExtraDone == 1
LateCap == 2

\* ------------------------------------------------------------- constants
\* sigch = make(chan os.Signal, 1)
SigchCap == 1

Signals == {"SIGTERM", "SIGINT"}
Readers == 1..NReaders
Workers == 1..NWorkers
Waiters == 1..NWaiters

VARIABLES
    sigch,          \* the buffered signal channel: [buf, closed]
    c,              \* the internal shutdown channel (C is its receive-only view)
    subscribed,     \* signal.Notify(sigch, ...) is in force
    dpc,            \* position of the goroutine started by init()
    s,              \* the dispatcher's local s (the value it received)
    proc,           \* "running", "killed" (default signal disposition), "panicked"
    lastInitiated,  \* value returned by the latest Initiated() call
    polledPending,  \* history: with the event still pending, an Initiated() call made
                    \* after a send on sigch has returned false
    rpc,            \* per reader of C: "idle", "waiting" (in <-C), "passed"
    wgN,            \* the WaitGroup counter
    wst,            \* per worker: "new", "running", "exiting" (deferred Done pending), "done"
    wait,           \* per Wg.Wait() caller: "idle", "blocked", "returned", "released"
    extraDone,      \* Done() calls made beyond the registered ones
    fires,          \* history: executions of the dispatcher's close(c)
    recvs,          \* history: values the dispatcher received from sigch
    lastSend,       \* history: outcome of the latest send on sigch: "none", "sent", "dropped"
    blockedAtFire,  \* history: the readers that were blocked in <-C when close(c) ran
    lastAdd,        \* history: the delta of the latest Wg.Add(delta), 0 before the first
    ctxErr,         \* Context.Err(): "nil" or "Canceled" (the listing of README.md)
    sigSeen,        \* history: a signal of the OS has been relayed to sigch
    wpc,            \* per worker, its place in the job loop: "loop", "select", "job", "cleanup"
    lateJobs,       \* history, per worker: jobs received with the event fired (up to LateCap)
    jobOffered,     \* the generator goroutine is blocked in jobCh <- i
    mainpc          \* the entry point: "setup", "recvC" (in <-shutdown.C), "atWait"

vars == <<sigch, c, subscribed, dpc, s, proc, lastInitiated, polledPending, rpc, wgN, wst,
          wait, extraDone, fires, recvs, lastSend, blockedAtFire, lastAdd,
          ctxErr, sigSeen, wpc, lateJobs, jobOffered, mainpc>>

evVars == <<sigch, c, subscribed, dpc, s, fires, recvs, lastSend, blockedAtFire,
            ctxErr, sigSeen>>
wgVars == <<wgN, wst, wait, extraDone, lastAdd>>
exVars == <<wpc, lateJobs, jobOffered, mainpc>>

\* ------------------------------------------------------- Go channel rules
NewChan == [buf |-> <<>>, closed |-> FALSE]

\* a receive can proceed: a buffered value is present, or the channel is closed
ChanCanRecv(ch) == Len(ch.buf) > 0 \/ ch.closed

\* the channel after a receive: a buffered value is taken; a receive on a
\* closed, empty channel yields the zero value and leaves the channel as it is
ChanAfterRecv(ch) ==
    IF Len(ch.buf) > 0 THEN [ch EXCEPT !.buf = Tail(@)] ELSE ch

\* select { case ch <- v: default: }
NonBlockingSend(ch, v) ==
    IF Len(ch.buf) < SigchCap THEN [ch EXCEPT !.buf = Append(@, v)] ELSE ch

\* what became of that send
SendOutcome(ch) == IF Len(ch.buf) < SigchCap THEN "sent" ELSE "dropped"

Running == proc = "running"

\* some send on sigch has been attempted (by the signal relay or InitiateManual)
SendAttempted == lastSend # "none"

\* the shutdown event has fired: c is closed
Fired == c.closed

\* ------------------------------------------------------------------ Init
Init ==
    /\ sigch = NewChan
    /\ c = NewChan
    /\ subscribed = TRUE
    /\ dpc = "spawned"
    /\ s = "none"
    /\ proc = "running"
    /\ lastInitiated = "none"
    /\ polledPending = FALSE
    /\ rpc = [r \in Readers |-> "idle"]
    /\ wgN = 0
    /\ wst = [w \in Workers |-> "new"]
    /\ wait = [x \in Waiters |-> "idle"]
    /\ extraDone = 0
    /\ fires = 0
    /\ recvs = 0
    /\ lastSend = "none"
    /\ blockedAtFire = {}
    /\ lastAdd = 0
    /\ ctxErr = "nil"
    /\ sigSeen = FALSE
    /\ wpc = [w \in Workers |-> "loop"]
    /\ lateJobs = [w \in Workers |-> 0]
    /\ jobOffered = FALSE
    /\ mainpc = "setup"

\* ----------------------------------------------------- signal delivery
\* The OS delivers sig to the process. While signal.Notify is in force the
\* runtime relays it to sigch without blocking; after signal.Stop the signal
\* gets its default disposition, which terminates the process.
SignalDeliver(sig) ==
    /\ Running
    /\ IF subscribed
         THEN /\ sigch' = NonBlockingSend(sigch, sig)
              /\ lastSend' = SendOutcome(sigch)
              /\ proc' = proc
         ELSE /\ proc' = "killed"
              /\ UNCHANGED <<sigch, lastSend>>
    /\ UNCHANGED <<c, subscribed, dpc, s, lastInitiated, polledPending, rpc, fires, recvs, blockedAtFire>>
    /\ UNCHANGED wgVars
    /\ UNCHANGED exVars
    /\ sigSeen' = (sigSeen \/ subscribed)
    /\ ctxErr' = ctxErr

\* ------------------------------------------------ the dispatcher goroutine
\* go func() { defer signal.Stop(sigch); ... reaches s := <-sigch
DispatcherStart ==
    /\ Running
    /\ dpc = "spawned"
    /\ dpc' = "recv"
    /\ UNCHANGED <<sigch, c, subscribed, s, proc, lastInitiated, polledPending, rpc, fires,
                   recvs, lastSend, blockedAtFire>>
    /\ UNCHANGED wgVars
    /\ UNCHANGED exVars
    /\ UNCHANGED <<ctxErr, sigSeen>>

\* variant: a dispatcher that goes on receiving from sigch after it has
\* fired the event, discarding what it receives
DispatcherRecvLate ==
    /\ Running
    /\ dpc \in {"recv", "exited"}
    /\ ChanCanRecv(sigch)
    /\ s' = IF Len(sigch.buf) > 0 THEN Head(sigch.buf) ELSE "zero"
    /\ sigch' = ChanAfterRecv(sigch)
    /\ recvs' = recvs + 1
    /\ dpc' = IF dpc = "recv" THEN "fire" ELSE dpc
    /\ UNCHANGED <<c, subscribed, proc, lastInitiated, polledPending, rpc, fires, lastSend,
                   blockedAtFire>>
    /\ UNCHANGED wgVars
    /\ UNCHANGED exVars
    /\ UNCHANGED <<ctxErr, sigSeen>>

\* variant: signal.Stop(sigch) is called as soon as the value is received,
\* before close(c)
DispatcherRecvStopsFirst ==
    /\ Running
    /\ dpc = "recv"
    /\ ChanCanRecv(sigch)
    /\ s' = IF Len(sigch.buf) > 0 THEN Head(sigch.buf) ELSE "zero"
    /\ sigch' = ChanAfterRecv(sigch)
    /\ recvs' = recvs + 1
    /\ dpc' = "fire"
    /\ subscribed' = FALSE
    /\ UNCHANGED <<c, proc, lastInitiated, polledPending, rpc, fires, lastSend,
                   blockedAtFire>>
    /\ UNCHANGED wgVars
    /\ UNCHANGED exVars
    /\ UNCHANGED <<ctxErr, sigSeen>>

\* s := <-sigch
DispatcherRecv ==
    /\ Running
    /\ dpc = "recv"
    /\ ChanCanRecv(sigch)
    /\ s' = IF Len(sigch.buf) > 0 THEN Head(sigch.buf) ELSE "zero"
    /\ sigch' = ChanAfterRecv(sigch)
    /\ recvs' = recvs + 1
    /\ dpc' = "fire"
    /\ UNCHANGED <<c, subscribed, proc, lastInitiated, polledPending, rpc, fires, lastSend,
                   blockedAtFire>>
    /\ UNCHANGED wgVars
    /\ UNCHANGED exVars
    /\ UNCHANGED <<ctxErr, sigSeen>>

\* variant: the goroutine loops, receiving again after close(c)
DispatcherFireAgain ==
    /\ Running
    /\ dpc = "fire"
    /\ fires' = fires + 1
    /\ IF c.closed
         THEN /\ proc' = "panicked"
              /\ c' = c
         ELSE /\ c' = [c EXCEPT !.closed = TRUE]
              /\ proc' = proc
    /\ blockedAtFire' = {r \in Readers : rpc[r] = "waiting"}
    /\ dpc' = "recv"
    /\ UNCHANGED <<sigch, subscribed, s, lastInitiated, rpc, recvs, lastSend>>
    /\ UNCHANGED wgVars
    /\ UNCHANGED exVars
    /\ ctxErr' = "Canceled"
    /\ sigSeen' = sigSeen
    /\ polledPending' = FALSE

\* variant: the event is fired without recording the reason of Context.Err()
DispatcherFireNoReason ==
    /\ Running
    /\ dpc = "fire"
    /\ fires' = fires + 1
    /\ IF c.closed
         THEN /\ proc' = "panicked"
              /\ c' = c
         ELSE /\ c' = [c EXCEPT !.closed = TRUE]
              /\ proc' = proc
    /\ blockedAtFire' = {r \in Readers : rpc[r] = "waiting"}
    /\ dpc' = "stop"
    /\ UNCHANGED <<sigch, subscribed, s, lastInitiated, rpc, recvs, lastSend>>
    /\ UNCHANGED wgVars
    /\ UNCHANGED exVars
    /\ ctxErr' = ctxErr
    /\ sigSeen' = sigSeen
    /\ polledPending' = FALSE

\* log.Printf(...); close(c)      (closing a closed channel panics)
\* In the listing of README.md this step is cancel(): it records the reason
\* returned by Context.Err() and closes Context.Done(), which is C.
DispatcherFire ==
    /\ Running
    /\ dpc = "fire"
    /\ fires' = fires + 1
    /\ IF c.closed
         THEN /\ proc' = "panicked"
              /\ c' = c
         ELSE /\ c' = [c EXCEPT !.closed = TRUE]
              /\ proc' = proc
    /\ blockedAtFire' = {r \in Readers : rpc[r] = "waiting"}
    /\ dpc' = "stop"
    /\ UNCHANGED <<sigch, subscribed, s, lastInitiated, rpc, recvs, lastSend>>
    /\ UNCHANGED wgVars
    /\ UNCHANGED exVars
    /\ ctxErr' = "Canceled"
    /\ sigSeen' = sigSeen
    /\ polledPending' = FALSE

\* variant: the goroutine ends without signal.Stop(sigch)
DispatcherStopNoUnsubscribe ==
    /\ Running
    /\ dpc = "stop"
    /\ subscribed' = subscribed
    /\ dpc' = "exited"
    /\ UNCHANGED <<sigch, c, s, proc, lastInitiated, polledPending, rpc, fires, recvs, lastSend,
                   blockedAtFire>>
    /\ UNCHANGED wgVars
    /\ UNCHANGED exVars
    /\ UNCHANGED <<ctxErr, sigSeen>>

\* the deferred signal.Stop(sigch); the goroutine ends
DispatcherStop ==
    /\ Running
    /\ dpc = "stop"
    /\ subscribed' = FALSE
    /\ dpc' = "exited"
    /\ UNCHANGED <<sigch, c, s, proc, lastInitiated, polledPending, rpc, fires, recvs, lastSend,
                   blockedAtFire>>
    /\ UNCHANGED wgVars
    /\ UNCHANGED exVars
    /\ UNCHANGED <<ctxErr, sigSeen>>

\* variant: a plain send, sigch <- syscall.SIGTERM, with no default case
InitiateManualBlocking ==
    /\ Running
    /\ Len(sigch.buf) < SigchCap
    /\ sigch' = [sigch EXCEPT !.buf = Append(@, "SIGTERM")]
    /\ lastSend' = "sent"
    /\ UNCHANGED <<c, subscribed, dpc, s, proc, lastInitiated, polledPending, rpc, fires, recvs,
                   blockedAtFire>>
    /\ UNCHANGED wgVars
    /\ UNCHANGED exVars
    /\ UNCHANGED <<ctxErr, sigSeen>>

\* variant: sigch unbuffered, so the send succeeds only while the dispatcher
\* is blocked in its receive and is dropped otherwise
InitiateManualUnbuffered ==
    /\ Running
    /\ \/ /\ dpc = "recv" /\ Len(sigch.buf) < SigchCap
          /\ sigch' = [sigch EXCEPT !.buf = Append(@, "SIGTERM")]
          /\ lastSend' = "sent"
       \/ /\ ~(dpc = "recv" /\ Len(sigch.buf) < SigchCap)
          /\ sigch' = sigch
          /\ lastSend' = "dropped"
    /\ UNCHANGED <<c, subscribed, dpc, s, proc, lastInitiated, polledPending, rpc, fires, recvs,
                   blockedAtFire>>
    /\ UNCHANGED wgVars
    /\ UNCHANGED exVars
    /\ UNCHANGED <<ctxErr, sigSeen>>

\* variant: a full slot is overwritten with the new value
InitiateManualOverwrite ==
    /\ Running
    /\ sigch' = [sigch EXCEPT !.buf = <<"SIGTERM">>]
    /\ lastSend' = SendOutcome(sigch)
    /\ UNCHANGED <<c, subscribed, dpc, s, proc, lastInitiated, polledPending, rpc, fires, recvs,
                   blockedAtFire>>
    /\ UNCHANGED wgVars
    /\ UNCHANGED exVars
    /\ UNCHANGED <<ctxErr, sigSeen>>

\* ------------------------------------------------------- InitiateManual()
\* variant: InitiateManual() fires the event itself, besides the enqueue
InitiateManualDirect ==
    /\ Running
    /\ \/ /\ Len(sigch.buf) < SigchCap
          /\ sigch' = [sigch EXCEPT !.buf = Append(@, "SIGTERM")]
          /\ lastSend' = "sent"
       \/ /\ ~(Len(sigch.buf) < SigchCap)
          /\ sigch' = sigch
          /\ lastSend' = "dropped"
    /\ c' = [c EXCEPT !.closed = TRUE]
    /\ UNCHANGED <<subscribed, dpc, s, proc, lastInitiated, polledPending, rpc, fires, recvs,
                   blockedAtFire>>
    /\ UNCHANGED wgVars
    /\ UNCHANGED exVars
    /\ UNCHANGED <<ctxErr, sigSeen>>

InitiateManual ==
    /\ Running
    /\ \/ /\ Len(sigch.buf) < SigchCap                  \* case sigch <- syscall.SIGTERM:
          /\ sigch' = [sigch EXCEPT !.buf = Append(@, "SIGTERM")]
          /\ lastSend' = "sent"
       \/ /\ ~(Len(sigch.buf) < SigchCap)               \* default:
          /\ sigch' = sigch
          /\ lastSend' = "dropped"
    /\ UNCHANGED <<c, subscribed, dpc, s, proc, lastInitiated, polledPending, rpc, fires, recvs,
                   blockedAtFire>>
    /\ UNCHANGED wgVars
    /\ UNCHANGED exVars
    /\ UNCHANGED <<ctxErr, sigSeen>>

\* variant: a plain receive, <-c, with no default case
InitiatedBlocking ==
    /\ Running
    /\ ChanCanRecv(c)
    /\ c' = ChanAfterRecv(c)
    /\ lastInitiated' = "true"
    /\ polledPending' = polledPending
    /\ UNCHANGED <<sigch, subscribed, dpc, s, proc, rpc, fires, recvs, lastSend,
                   blockedAtFire>>
    /\ UNCHANGED wgVars
    /\ UNCHANGED exVars
    /\ UNCHANGED <<ctxErr, sigSeen>>

\* variant: the event is a value that the successful poll takes away
InitiatedDraining ==
    /\ Running
    /\ \/ /\ ChanCanRecv(c)
          /\ c' = [c EXCEPT !.closed = FALSE]
          /\ lastInitiated' = "true"
          /\ polledPending' = polledPending
       \/ /\ ~ChanCanRecv(c)
          /\ c' = c
          /\ lastInitiated' = "false"
          /\ polledPending' = (polledPending \/ SendAttempted)
    /\ UNCHANGED <<sigch, subscribed, dpc, s, proc, rpc, fires, recvs, lastSend,
                   blockedAtFire>>
    /\ UNCHANGED wgVars
    /\ UNCHANGED exVars
    /\ UNCHANGED <<ctxErr, sigSeen>>

\* ------------------------------------------------------------ Initiated()
Initiated ==
    /\ Running
    /\ \/ /\ ChanCanRecv(c)                             \* case <-c: return true
          /\ c' = ChanAfterRecv(c)
          /\ lastInitiated' = "true"
          /\ polledPending' = polledPending
       \/ /\ ~ChanCanRecv(c)                            \* default: return false
          /\ c' = c
          /\ lastInitiated' = "false"
          /\ polledPending' = (polledPending \/ SendAttempted)
    /\ UNCHANGED <<sigch, subscribed, dpc, s, proc, rpc, fires, recvs, lastSend,
                   blockedAtFire>>
    /\ UNCHANGED wgVars
    /\ UNCHANGED exVars
    /\ UNCHANGED <<ctxErr, sigSeen>>

\* ------------------------------------------------------- receivers on C
\* a goroutine reaches <-shutdown.C
ReaderStart(r) ==
    /\ Running
    /\ rpc[r] = "idle"
    /\ rpc' = [rpc EXCEPT ![r] = "waiting"]
    /\ UNCHANGED <<lastInitiated, polledPending, proc>>
    /\ UNCHANGED evVars
    /\ UNCHANGED wgVars
    /\ UNCHANGED exVars

\* variant: the event is a single value that the first receiver takes away
ReaderRecvConsuming(r) ==
    /\ Running
    /\ rpc[r] = "waiting"
    /\ ChanCanRecv(c)
    /\ c' = [c EXCEPT !.closed = FALSE]
    /\ rpc' = [rpc EXCEPT ![r] = "passed"]
    /\ UNCHANGED <<sigch, subscribed, dpc, s, proc, lastInitiated, polledPending, fires, recvs,
                   lastSend, blockedAtFire>>
    /\ UNCHANGED wgVars
    /\ UNCHANGED exVars
    /\ UNCHANGED <<ctxErr, sigSeen>>

\* <-shutdown.C completes
ReaderRecv(r) ==
    /\ Running
    /\ rpc[r] = "waiting"
    /\ ChanCanRecv(c)
    /\ c' = ChanAfterRecv(c)
    /\ rpc' = [rpc EXCEPT ![r] = "passed"]
    /\ UNCHANGED <<sigch, subscribed, dpc, s, proc, lastInitiated, polledPending, fires, recvs,
                   lastSend, blockedAtFire>>
    /\ UNCHANGED wgVars
    /\ UNCHANGED exVars
    /\ UNCHANGED <<ctxErr, sigSeen>>

\* ------------------------------------------------------------ Wg (sync.WaitGroup)
\* WaitGroup.Add(delta): the counter changes by delta; a negative counter
\* panics; when the counter becomes 0 every blocked waiter is released.
WgAddEffect(delta) ==
    /\ wgN' = wgN + delta
    /\ IF wgN + delta < 0
         THEN /\ proc' = "panicked"
              /\ wait' = wait
         ELSE /\ proc' = proc
              /\ wait' = [x \in Waiters |->
                            IF wait[x] = "blocked" /\ wgN + delta = 0
                              THEN "released" ELSE wait[x]]

\* shutdown.Wg.Add(n) before starting the n workers of set S
WgAdd(S) ==
    /\ Running
    /\ S # {}
    /\ \A w \in S : wst[w] = "new"
    /\ WgAddEffect(Cardinality(S))
    /\ lastAdd' = Cardinality(S)
    /\ wst' = [w \in Workers |-> IF w \in S THEN "running" ELSE wst[w]]
    /\ UNCHANGED <<lastInitiated, polledPending, rpc, extraDone>>
    /\ UNCHANGED evVars
    /\ UNCHANGED exVars

\* the worker's function returns; its deferred Wg.Done() is about to run
WorkerFinish(w) ==
    /\ Running
    /\ wst[w] = "running"
    /\ wst' = [wst EXCEPT ![w] = "exiting"]
    /\ UNCHANGED <<lastInitiated, polledPending, rpc, proc, wgN, wait, extraDone, lastAdd>>
    /\ UNCHANGED evVars
    /\ UNCHANGED exVars

\* variant: a counter updated without atomicity, so that a decrement made
\* while another worker is also in its Done() is lost
WorkerDoneRacy(w) ==
    /\ Running
    /\ wst[w] = "exiting"
    /\ WgAddEffect(IF \E v \in Workers \ {w} : wst[v] = "exiting" THEN 0 ELSE -1)
    /\ wst' = [wst EXCEPT ![w] = "done"]
    /\ UNCHANGED <<lastInitiated, polledPending, rpc, extraDone, lastAdd>>
    /\ UNCHANGED evVars
    /\ UNCHANGED exVars

\* defer shutdown.Wg.Done()
WorkerDone(w) ==
    /\ Running
    /\ wst[w] = "exiting"
    /\ WgAddEffect(-1)
    /\ wst' = [wst EXCEPT ![w] = "done"]
    /\ UNCHANGED <<lastInitiated, polledPending, rpc, extraDone, lastAdd>>
    /\ UNCHANGED evVars
    /\ UNCHANGED exVars

\* variant: the counter is clamped at 0 and the call is tolerated
ExtraDoneClamped ==
    /\ Running
    /\ extraDone < MaxExtraDone
    /\ WgAddEffect(IF wgN = 0 THEN 0 ELSE -1)
    /\ extraDone' = extraDone + 1
    /\ UNCHANGED <<lastInitiated, polledPending, rpc, wst, lastAdd>>
    /\ UNCHANGED evVars
    /\ UNCHANGED exVars

\* a Done() that no Add() registered
ExtraDone ==
    /\ Running
    /\ extraDone < MaxExtraDone
    /\ WgAddEffect(-1)
    /\ extraDone' = extraDone + 1
    /\ UNCHANGED <<lastInitiated, polledPending, rpc, wst, lastAdd>>
    /\ UNCHANGED evVars
    /\ UNCHANGED exVars

\* variant: Wait() returns without looking at the counter
WgWaitNoBlock(x) ==
    /\ Running
    /\ wait[x] = "idle"
    /\ wait' = [wait EXCEPT ![x] = "returned"]
    /\ UNCHANGED <<lastInitiated, polledPending, rpc, proc, wgN, wst, extraDone, lastAdd>>
    /\ UNCHANGED evVars
    /\ UNCHANGED exVars

\* variant: Wait() does not proceed before the event has fired
WgWaitAfterEvent(x) ==
    /\ Running
    /\ Fired
    /\ wait[x] = "idle"
    /\ wait' = [wait EXCEPT ![x] = IF wgN = 0 THEN "returned" ELSE "blocked"]
    /\ UNCHANGED <<lastInitiated, polledPending, rpc, proc, wgN, wst, extraDone, lastAdd>>
    /\ UNCHANGED evVars
    /\ UNCHANGED exVars

\* shutdown.Wg.Wait()
WgWait(x) ==
    /\ Running
    /\ wait[x] = "idle"
    /\ wait' = [wait EXCEPT ![x] = IF wgN = 0 THEN "returned" ELSE "blocked"]
    /\ UNCHANGED <<lastInitiated, polledPending, rpc, proc, wgN, wst, extraDone, lastAdd>>
    /\ UNCHANGED evVars
    /\ UNCHANGED exVars

\* ------------------------------------------------- the example programs
\* the waiter that stands for the entry point's shutdown.Wg.Wait()
MainWaiter == 1

\* the job generator: for i := 0; ; i++ { jobCh <- i } reaches its send
GeneratorOffer ==
    /\ Running
    /\ ~jobOffered
    /\ jobOffered' = TRUE
    /\ UNCHANGED <<wpc, lateJobs, mainpc, lastInitiated, polledPending, rpc, proc>>
    /\ UNCHANGED evVars
    /\ UNCHANGED wgVars

\* jobs received with the event already fired, counted up to LateCap
CountLate(n) == IF Fired THEN (IF n < LateCap THEN n + 1 ELSE LateCap) ELSE n

\* variant: the loop condition is taken to be false without polling C
GuardCheckStale(w) ==
    /\ Running
    /\ wst[w] = "running"
    /\ wpc[w] = "loop"
    /\ wpc' = [wpc EXCEPT ![w] = "select"]
    /\ UNCHANGED <<lateJobs, jobOffered, mainpc, lastInitiated, polledPending, rpc, proc>>
    /\ UNCHANGED evVars
    /\ UNCHANGED wgVars

\* for !shutdown.Initiated() { ... }: the guarded worker evaluates its loop
\* condition; when it is false the loop ends and the deferred calls run
GuardCheck(w) ==
    /\ Running
    /\ wst[w] = "running"
    /\ wpc[w] = "loop"
    /\ wpc' = [wpc EXCEPT ![w] = IF ChanCanRecv(c) THEN "cleanup" ELSE "select"]
    /\ UNCHANGED <<lateJobs, jobOffered, mainpc, lastInitiated, polledPending, rpc, proc>>
    /\ UNCHANGED evVars
    /\ UNCHANGED wgVars

\* variant: the select takes a job only while C is not ready
GuardedSelectShutdownFirst(w) ==
    /\ Running
    /\ wst[w] = "running"
    /\ wpc[w] = "select"
    /\ \/ /\ jobOffered /\ ~ChanCanRecv(c)
          /\ jobOffered' = FALSE
          /\ lateJobs' = [lateJobs EXCEPT ![w] = CountLate(@)]
          /\ wpc' = [wpc EXCEPT ![w] = "job"]
       \/ /\ ChanCanRecv(c)
          /\ wpc' = [wpc EXCEPT ![w] = "cleanup"]
          /\ UNCHANGED <<jobOffered, lateJobs>>
    /\ UNCHANGED <<mainpc, lastInitiated, polledPending, rpc, proc>>
    /\ UNCHANGED evVars
    /\ UNCHANGED wgVars

\* the guarded worker's select { case jobID := <-jobCh: ... case <-shutdown.C: return }
\* (a select with several ready cases takes any one of them)
GuardedSelect(w) ==
    /\ Running
    /\ wst[w] = "running"
    /\ wpc[w] = "select"
    /\ \/ /\ jobOffered                                 \* case jobID := <-jobCh:
          /\ jobOffered' = FALSE
          /\ lateJobs' = [lateJobs EXCEPT ![w] = CountLate(@)]
          /\ wpc' = [wpc EXCEPT ![w] = "job"]
       \/ /\ ChanCanRecv(c)                             \* case <-shutdown.C: return
          /\ wpc' = [wpc EXCEPT ![w] = "cleanup"]
          /\ UNCHANGED <<jobOffered, lateJobs>>
    /\ UNCHANGED <<mainpc, lastInitiated, polledPending, rpc, proc>>
    /\ UNCHANGED evVars
    /\ UNCHANGED wgVars

\* variant: the select takes a job only while C is not ready
UnguardedSelectShutdownFirst(w) ==
    /\ Running
    /\ wst[w] = "running"
    /\ wpc[w] = "loop"
    /\ \/ /\ jobOffered /\ ~ChanCanRecv(c)
          /\ jobOffered' = FALSE
          /\ lateJobs' = [lateJobs EXCEPT ![w] = CountLate(@)]
          /\ wpc' = [wpc EXCEPT ![w] = "job"]
       \/ /\ ChanCanRecv(c)
          /\ wpc' = [wpc EXCEPT ![w] = "cleanup"]
          /\ UNCHANGED <<jobOffered, lateJobs>>
    /\ UNCHANGED <<mainpc, lastInitiated, polledPending, rpc, proc>>
    /\ UNCHANGED evVars
    /\ UNCHANGED wgVars

\* the unguarded worker: for { select { case jobID := <-jobCh: ...
\*                                      case <-shutdown.C: ...; return } }
UnguardedSelect(w) ==
    /\ Running
    /\ wst[w] = "running"
    /\ wpc[w] = "loop"
    /\ \/ /\ jobOffered                                 \* case jobID := <-jobCh:
          /\ jobOffered' = FALSE
          /\ lateJobs' = [lateJobs EXCEPT ![w] = CountLate(@)]
          /\ wpc' = [wpc EXCEPT ![w] = "job"]
       \/ /\ ChanCanRecv(c)                             \* case <-shutdown.C:
          /\ wpc' = [wpc EXCEPT ![w] = "cleanup"]
          /\ UNCHANGED <<jobOffered, lateJobs>>
    /\ UNCHANGED <<mainpc, lastInitiated, polledPending, rpc, proc>>
    /\ UNCHANGED evVars
    /\ UNCHANGED wgVars

\* log.Printf("[worker] Doing job ..."); time.Sleep(time.Second): the job ends
JobDone(w) ==
    /\ Running
    /\ wst[w] = "running"
    /\ wpc[w] = "job"
    /\ wpc' = [wpc EXCEPT ![w] = "loop"]
    /\ UNCHANGED <<lateJobs, jobOffered, mainpc, lastInitiated, polledPending, rpc, proc>>
    /\ UNCHANGED evVars
    /\ UNCHANGED wgVars

\* "Aborting. Saving progress..." ... "Save complete.": the worker's cleanup
\* ends and the function returns; its deferred Wg.Done() is about to run
Cleanup(w) ==
    /\ Running
    /\ wst[w] = "running"
    /\ wpc[w] = "cleanup"
    /\ wst' = [wst EXCEPT ![w] = "exiting"]
    /\ UNCHANGED <<wgN, wait, extraDone, lastAdd>>
    /\ UNCHANGED <<wpc, lateJobs, jobOffered, mainpc, lastInitiated, polledPending, rpc, proc>>
    /\ UNCHANGED evVars

\* the entry point: shutdown.Wg.Add(1) and go func() { ... } for worker w
EntryAdd(w) ==
    /\ mainpc = "setup"
    /\ WgAdd({w})

\* the entry point reaches <-shutdown.C
EntryReachC ==
    /\ Running
    /\ mainpc = "setup"
    /\ mainpc' = "recvC"
    /\ UNCHANGED <<wpc, lateJobs, jobOffered, lastInitiated, polledPending, rpc, proc>>
    /\ UNCHANGED evVars
    /\ UNCHANGED wgVars

\* variant: the entry point does not wait for the event
EntryRecvCNoWait ==
    /\ Running
    /\ mainpc = "recvC"
    /\ mainpc' = "atWait"
    /\ UNCHANGED <<wpc, lateJobs, jobOffered, lastInitiated, polledPending, rpc, proc>>
    /\ UNCHANGED evVars
    /\ UNCHANGED wgVars

\* the entry point's <-shutdown.C completes
EntryRecvC ==
    /\ Running
    /\ mainpc = "recvC"
    /\ ChanCanRecv(c)
    /\ c' = ChanAfterRecv(c)
    /\ mainpc' = "atWait"
    /\ UNCHANGED <<sigch, subscribed, dpc, s, fires, recvs, lastSend, blockedAtFire,
                   ctxErr, sigSeen>>
    /\ UNCHANGED <<wpc, lateJobs, jobOffered, lastInitiated, polledPending, rpc, proc>>
    /\ UNCHANGED wgVars

\* the entry point's shutdown.Wg.Wait()
EntryWait ==
    /\ mainpc = "atWait"
    /\ WgWait(MainWaiter)

\* main() has returned
EntryReturned ==
    /\ mainpc = "atWait"
    /\ wait[MainWaiter] \in {"returned", "released"}

\* ------------------------------------------------------------------ Next
\* steps of the shutdown event machinery and of its users
NextEvent ==
    \/ \E sig \in Signals : SignalDeliver(sig)
    \/ DispatcherStart
    \/ DispatcherRecv
    \/ DispatcherFire
    \/ DispatcherStop
    \/ InitiateManual
    \/ Initiated
    \/ \E r \in Readers : ReaderStart(r)
    \/ \E r \in Readers : ReaderRecv(r)

\* steps of the users of the shared WaitGroup
NextWg ==
    \/ \E S \in SUBSET Workers : WgAdd(S)
    \/ \E w \in Workers : WorkerFinish(w)
    \/ \E w \in Workers : WorkerDone(w)
    \/ ExtraDone
    \/ \E x \in Waiters : WgWait(x)

Next == NextEvent \/ NextWg

Spec == Init /\ [][Next]_vars

\* the event machinery alone (no goroutine touches Wg)
EventSpec == Init /\ [][NextEvent]_vars

\* the WaitGroup alone (no signal, no manual trigger)
WgSpec == Init /\ [][NextWg]_vars

\* the Go scheduler runs every goroutine that can proceed: the dispatcher
\* goroutine and every goroutine whose receive on C can complete
EventFair ==
    /\ EventSpec
    /\ WF_vars(DispatcherStart)
    /\ WF_vars(DispatcherRecv)
    /\ WF_vars(DispatcherFire)
    /\ WF_vars(DispatcherStop)
    /\ \A r \in Readers : WF_vars(ReaderRecv(r))

\* ... and every worker whose deferred Wg.Done() is pending
WgFair ==
    /\ WgSpec
    /\ \A w \in Workers : WF_vars(WorkerDone(w))

\* steps shared by the example programs when no signal arrives: the manual
\* trigger, the dispatcher, the job generator, the entry point and the
\* workers' jobs, cleanup and Done()
NextExampleManual ==
    \/ DispatcherStart
    \/ DispatcherRecv
    \/ DispatcherFire
    \/ DispatcherStop
    \/ InitiateManual
    \/ GeneratorOffer
    \/ \E w \in Workers : EntryAdd(w)
    \/ EntryReachC
    \/ EntryRecvC
    \/ EntryWait
    \/ \E w \in Workers : JobDone(w)
    \/ \E w \in Workers : Cleanup(w)
    \/ \E w \in Workers : WorkerDone(w)

\* the same with signals of the OS
NextExample ==
    \/ \E sig \in Signals : SignalDeliver(sig)
    \/ NextExampleManual

\* the example whose workers guard their loop with Initiated()
NextGuarded ==
    \/ NextExample
    \/ \E w \in Workers : GuardCheck(w)
    \/ \E w \in Workers : GuardedSelect(w)

\* the example whose workers only select between jobCh and C
NextUnguarded ==
    \/ NextExample
    \/ \E w \in Workers : UnguardedSelect(w)

GuardedSpec == Init /\ [][NextGuarded]_vars

\* the guarded example shut down by InitiateManual() alone
NextGuardedManual ==
    \/ NextExampleManual
    \/ \E w \in Workers : GuardCheck(w)
    \/ \E w \in Workers : GuardedSelect(w)

GuardedManualSpec == Init /\ [][NextGuardedManual]_vars

UnguardedSpec == Init /\ [][NextUnguarded]_vars

\* the Go scheduler runs every goroutine that can proceed, and every job
\* and every cleanup comes to an end
GuardedFair ==
    /\ GuardedManualSpec
    /\ WF_vars(DispatcherStart)
    /\ WF_vars(DispatcherRecv)
    /\ WF_vars(DispatcherFire)
    /\ WF_vars(DispatcherStop)
    /\ WF_vars(EntryReachC)
    /\ WF_vars(EntryRecvC)
    /\ WF_vars(EntryWait)
    /\ \A w \in Workers : WF_vars(GuardCheck(w))
    /\ \A w \in Workers : WF_vars(GuardedSelect(w))
    /\ \A w \in Workers : WF_vars(JobDone(w))
    /\ \A w \in Workers : WF_vars(Cleanup(w))
    /\ \A w \in Workers : WF_vars(WorkerDone(w))

TypeOK ==
    /\ sigch \in [buf : {<<>>} \cup {<<sig>> : sig \in Signals}, closed : {FALSE}]
    /\ c \in [buf : {<<>>}, closed : BOOLEAN]
    /\ subscribed \in BOOLEAN
    /\ dpc \in {"spawned", "recv", "fire", "stop", "exited"}
    /\ s \in Signals \cup {"none"}
    /\ proc \in {"running", "killed", "panicked"}
    /\ lastInitiated \in {"none", "true", "false"}
    /\ polledPending \in BOOLEAN
    /\ rpc \in [Readers -> {"idle", "waiting", "passed"}]
    /\ wgN \in -1..NWorkers
    /\ wst \in [Workers -> {"new", "running", "exiting", "done"}]
    /\ wait \in [Waiters -> {"idle", "blocked", "returned", "released"}]
    /\ extraDone \in 0..MaxExtraDone
    /\ fires \in 0..1
    /\ recvs \in 0..1
    /\ lastSend \in {"none", "sent", "dropped"}
    /\ blockedAtFire \in SUBSET Readers
    /\ lastAdd \in 0..NWorkers
    /\ ctxErr \in {"nil", "Canceled"}
    /\ sigSeen \in BOOLEAN
    /\ wpc \in [Workers -> {"loop", "select", "job", "cleanup"}]
    /\ lateJobs \in [Workers -> 0..LateCap]
    /\ jobOffered \in BOOLEAN
    /\ mainpc \in {"setup", "recvC", "atWait"}

\* ================================================================ properties

\* C1: whatever the number and interleaving of trigger attempts (signals
\* relayed to sigch, InitiateManual() calls), close(c) is executed at most
\* once, the event is fired exactly when it has been executed once, the
\* dispatcher is past its fire step exactly then, and no second close panics.
SingleFire ==
    /\ fires <= 1
    /\ Fired <=> fires = 1
    /\ (dpc \in {"stop", "exited"}) <=> fires = 1
    /\ proc # "panicked"

\* a further trigger is buffered after the one that fired the event was consumed
SingleFireWitness ==
    /\ fires = 1
    /\ Fired
    /\ Len(sigch.buf) = SigchCap
    /\ dpc = "exited"

\* C2: once C is closed it stays closed, whatever step comes next (signals,
\* InitiateManual, Initiated, receives on C, Wg.Add / Done / Wait).
Irreversible == [][Fired => Fired']_vars

\* after the firing: a receive on C, a poll, a later trigger and a released Wait()
IrreversibleWitness ==
    /\ Fired
    /\ \E r \in Readers : rpc[r] = "passed"
    /\ lastInitiated = "true"
    /\ lastSend = "sent"
    /\ dpc = "exited"
    /\ \E x \in Waiters : wait[x] = "released"

\* C3: once a send on sigch has been attempted, at any point after init()
\* (also before the dispatcher reached its receive and before any reader
\* waits), the event eventually fires; and, as long as the process runs, a
\* reader blocked in <-C after a trigger was sent eventually gets through.
NoMissedTrigger ==
    /\ SendAttempted ~> Fired
    /\ []Running =>
          \A r \in Readers : (SendAttempted /\ rpc[r] = "waiting") ~> (rpc[r] = "passed")

\* a trigger sent before the dispatcher began receiving and before any reader waits
NoMissedTriggerWitness ==
    /\ SendAttempted
    /\ dpc = "spawned"
    /\ \A r \in Readers : rpc[r] = "idle"
    /\ ~Fired

\* C4: Initiated() can always complete at once, each call returns the state
\* of the event at that moment (false while pending, true once fired), and
\* a true result has only ever been returned with the event fired.
InitiatedAccurate ==
    /\ [](Running => ENABLED Initiated)
    /\ [][Initiated => lastInitiated' = (IF Fired THEN "true" ELSE "false")]_vars
    /\ [](lastInitiated = "true" => Fired)

\* a call after the firing has returned true
InitiatedAccurateWitness ==
    /\ lastInitiated = "true"
    /\ Fired
    /\ fires = 1

\* C5: the readers that were blocked in <-C when the event fired all get
\* through eventually (as long as the process runs); a receive on C leaves
\* the event as it is; and a reader waiting on the fired event can proceed.
BroadcastFanOut ==
    /\ []Running => \A r \in Readers : (r \in blockedAtFire) ~> (rpc[r] = "passed")
    /\ [][\A r \in Readers : ReaderRecv(r) => c' = c]_vars
    /\ [](\A r \in Readers :
            (Running /\ Fired /\ rpc[r] = "waiting") => ENABLED ReaderRecv(r))

\* every reader was blocked when the event fired, and every reader got through
BroadcastFanOutWitness ==
    /\ blockedAtFire = Readers
    /\ \A r \in Readers : rpc[r] = "passed"

\* C6: InitiateManual() can complete at once in every state of the running
\* process, and with the slot occupied it completes by its default case,
\* leaving sigch as it is.
ManualNeverBlocks ==
    /\ [](Running => ENABLED InitiateManual)
    /\ [][(InitiateManual /\ Len(sigch.buf) = SigchCap)
             => (sigch' = sigch /\ lastSend' = "dropped")]_vars

\* a call that found the slot occupied, the dispatcher gone and the event fired
ManualNeverBlocksWitness ==
    /\ lastSend = "dropped"
    /\ Len(sigch.buf) = SigchCap
    /\ dpc = "exited"
    /\ Fired

\* C7: sigch never holds more than one value, and a send that finds the
\* slot occupied (by the signal relay or by InitiateManual) changes nothing
\* in it.
SingleSlot ==
    /\ [](Len(sigch.buf) <= 1)
    /\ [][((InitiateManual \/ \E sig \in Signals : SignalDeliver(sig))
             /\ Len(sigch.buf) >= 1) => sigch' = sigch]_vars

\* a send was dropped while another value sat in the slot
SingleSlotWitness ==
    /\ lastSend = "dropped"
    /\ sigch.buf = <<"SIGINT">>

\* C8: a Wait() gets past only with the counter at 0: it returns at once
\* exactly when the counter is 0 at the call, and one that blocked stays
\* blocked while the counter remains positive.
WaitOnlyAtZero ==
    /\ [][\A x \in Waiters :
            (wait[x] \in {"idle", "blocked"} /\ wait'[x] \in {"returned", "released"})
               => wgN' = 0]_vars
    /\ [][\A x \in Waiters :
            (wait[x] = "idle" /\ wait'[x] # "idle")
               => (wait'[x] = "returned" <=> wgN = 0)]_vars
    /\ [][\A x \in Waiters :
            (wait[x] = "blocked" /\ wgN' > 0) => wait'[x] = "blocked"]_vars

\* a Wait() that blocked on a positive counter and was released at 0
WaitOnlyAtZeroWitness ==
    /\ \E x \in Waiters : wait[x] = "released"
    /\ wgN = 0
    /\ \A w \in Workers : wst[w] = "done"

\* the three Done() calls of the workers registered by Add(3) are pending together
ThreeDonesPending ==
    /\ wgN = 3
    /\ Cardinality({w \in Workers : wst[w] = "exiting"}) = 3
    /\ \A w \in Workers : wst[w] \in {"exiting", "done"}

\* C9: the counter accounts for every Add and Done (no decrement is lost),
\* and a Wait() blocked while three Done() calls are pending together
\* eventually returns.
CompletionRendezvous ==
    /\ [](Running =>
            wgN = Cardinality({w \in Workers : wst[w] \in {"running", "exiting"}})
                    - extraDone)
    /\ \A x \in Waiters :
          (wait[x] = "blocked" /\ ThreeDonesPending) ~> (wait[x] = "released")

\* Add(3), three Done() calls, the counter back at 0 and the blocked Wait() released
CompletionRendezvousWitness ==
    /\ lastAdd = 3
    /\ extraDone = 0
    /\ \A w \in Workers : wst[w] = "done"
    /\ wgN = 0
    /\ \E x \in Waiters : wait[x] = "released"

\* C10: a Done() made with the counter at 0 panics (it is neither ignored
\* nor clamped), and the counter is never negative while the process runs.
FatalMisuse ==
    /\ [][((ExtraDone \/ \E w \in Workers : WorkerDone(w)) /\ wgN = 0)
             => (proc' = "panicked" /\ wgN' = -1)]_vars
    /\ [](proc # "panicked" => wgN >= 0)
    /\ [](proc = "panicked" => wgN = -1)

\* one Done() more than Add() registered has panicked
FatalMisuseWitness ==
    /\ proc = "panicked"
    /\ extraDone = 1
    /\ \A w \in Workers : wst[w] = "done"

\* C11: a worker whose loop is guarded by Initiated() receives no job from
\* jobCh in a state where the event has already fired.
GuardedNoLateJob == \A w \in Workers : lateJobs[w] = 0

\* C12: with every worker registered by Add(1) and running the guarded
\* loop, once InitiateManual() has been called every worker's deferred
\* Done() has eventually run and the entry point's Wait() has returned
\* (under fair scheduling, every job and every cleanup coming to an end).
GuardedScenario ==
    (SendAttempted /\ \A w \in Workers : wst[w] # "new")
        ~> ((\A w \in Workers : wst[w] = "done") /\ EntryReturned)

\* three workers were registered, shutdown was triggered, all of them ran
\* Done() and the entry point, blocked in Wait(), was released
GuardedScenarioWitness ==
    /\ NWorkers >= 3
    /\ SendAttempted
    /\ \A w \in Workers : wst[w] = "done"
    /\ mainpc = "atWait"
    /\ wait[MainWaiter] = "released"
    /\ Running

\* C13: the entry point (<-shutdown.C, then shutdown.Wg.Wait()) has returned
\* only in states where the event has fired and every worker registered by
\* Add(1) has gone through its cleanup and called Done(); Wait() is passed
\* only with the counter at 0.
EntryAfterShutdown ==
    /\ [](EntryReturned =>
            /\ Fired
            /\ wgN = 0
            /\ \A w \in Workers :
                  wst[w] # "new" => (wst[w] = "done" /\ wpc[w] = "cleanup"))
    /\ [](mainpc = "atWait" => Fired)
    /\ [][wait[MainWaiter] = "blocked" /\ wait'[MainWaiter] = "released"
            => (wgN = 1 /\ wgN' = 0 /\ \E w \in Workers : WorkerDone(w))]_vars

\* the entry point was blocked in Wait() and returned after the last of
\* several unguarded workers called Done()
EntryAfterShutdownWitness ==
    /\ EntryReturned
    /\ wait[MainWaiter] = "released"
    /\ Cardinality({w \in Workers : wst[w] = "done"}) >= 2
    /\ \E w \in Workers : lateJobs[w] >= 1

\* C14 as stated: once a first signal has been intercepted, any later signal
\* is not delivered into sigch and gets the default disposition.
SecondSignalFallsThrough ==
    [][((\E sig \in Signals : SignalDeliver(sig)) /\ sigSeen)
          => (sigch' = sigch /\ proc' = "killed")]_vars

\* C14, amended: the subscription made by signal.Notify lasts until the
\* dispatcher's deferred signal.Stop, which runs only after one value has
\* been received and c closed, and it is never renewed. A signal that
\* arrives while the subscription lasts, a second one included, is relayed
\* to sigch without blocking (buffered, or dropped when sigch is full) and
\* is never default-handled; a signal that arrives afterwards leaves sigch
\* alone and gets the default disposition, which ends the process.
SingleShotAfterStop ==
    /\ [][\A sig \in Signals : (SignalDeliver(sig) /\ ~subscribed)
            => (sigch' = sigch /\ proc' = "killed")]_vars
    /\ [][\A sig \in Signals : (SignalDeliver(sig) /\ subscribed)
            => (sigch' = NonBlockingSend(sigch, sig) /\ proc' = proc)]_vars
    /\ [](subscribed <=> dpc # "exited")
    /\ [](~subscribed => (Fired /\ recvs = 1))
    /\ [][~subscribed => ~subscribed']_vars
    /\ [](proc = "killed" => ~subscribed)

\* a signal was intercepted, the dispatcher ended with signal.Stop, and a
\* later signal got the default disposition
SingleShotAfterStopWitness ==
    /\ sigSeen
    /\ dpc = "exited"
    /\ ~subscribed
    /\ proc = "killed"

\* C15: the Context view is bound to the event: Context.Done(), which is C,
\* is closed exactly when the event has fired; Context.Err() is nil exactly
\* while the event is pending and keeps its value once set; and whenever the
\* last call of Initiated() returned true, Context.Err() is already non-nil.
ContextBound ==
    /\ [](c.closed <=> fires = 1)
    /\ [](Fired <=> ctxErr # "nil")
    /\ [](lastInitiated = "true" => ctxErr = "Canceled")
    /\ [][ctxErr # "nil" => ctxErr' = ctxErr]_vars
    /\ [][ctxErr' # ctxErr => (~Fired /\ Fired')]_vars

\* the event has fired, Initiated() returned true and the reason is Canceled
ContextBoundWitness ==
    /\ lastInitiated = "true"
    /\ ctxErr = "Canceled"
    /\ Fired
    /\ Running

\* C16: an unguarded worker gives shutdown no precedence: whenever a worker
\* stands at its select with a job ready on jobCh and the event fired, both
\* the job case and the shutdown case can be taken; a job received then is
\* a job started after the event has fired.
NoPrecedence ==
    /\ [](\A w \in Workers :
            (Running /\ wst[w] = "running" /\ wpc[w] = "loop"
                /\ jobOffered /\ Fired)
               => (/\ ENABLED (UnguardedSelect(w) /\ wpc'[w] = "job")
                   /\ ENABLED (UnguardedSelect(w) /\ wpc'[w] = "cleanup")))
    /\ [][\A w \in Workers :
            (UnguardedSelect(w) /\ Fired /\ wpc'[w] = "job")
               => (lateJobs'[w] >= 1 /\ ~jobOffered')]_vars

\* an unguarded worker is processing a job that it received after the
\* event had fired
NoPrecedenceWitness ==
    \E w \in Workers :
        /\ wpc[w] = "job"
        /\ wst[w] = "running"
        /\ lateJobs[w] >= 1
        /\ Fired

\* C17: only the dispatcher's fire step changes the event: every step that
\* changes c is DispatcherFire, and InitiateManual() (which only attempts an
\* enqueue into sigch), Initiated(), the receives on C and Wg.Add, Done and
\* Wait leave the pending/fired state as it is.
SoleWriter ==
    /\ [][c' # c =>
            /\ DispatcherFire
            /\ dpc = "fire"
            /\ ~InitiateManual
            /\ ~Initiated
            /\ ~(\E r \in Readers : ReaderStart(r) \/ ReaderRecv(r))
            /\ ~(\E S \in SUBSET Workers : WgAdd(S))
            /\ ~(\E w \in Workers : WorkerFinish(w) \/ WorkerDone(w))
            /\ ~ExtraDone
            /\ ~(\E x \in Waiters : WgWait(x))]_vars
    /\ [][InitiateManual =>
            (c' = c /\ fires' = fires /\ sigch' = NonBlockingSend(sigch, "SIGTERM"))]_vars

\* InitiateManual() has enqueued its trigger and Initiated() has been called,
\* a reader waits on C and a worker was registered, and the event is still
\* pending because the dispatcher has not yet run close(c)
SoleWriterWitness ==
    /\ lastSend = "sent"
    /\ ~sigSeen
    /\ lastInitiated = "false"
    /\ \E r \in Readers : rpc[r] = "waiting"
    /\ wgN >= 1
    /\ dpc = "fire"
    /\ ~Fired

\* C18: the completion tracker is independent of the event: the fire step
\* and every other step that changes the event leave the counter, the
\* workers' registrations and the waiters alone; and Add, Done and Wait are
\* enabled, and act, by the tracker's state alone, event pending or fired.
TrackerIndependent ==
    /\ [][c' # c => UNCHANGED <<wgN, wst, wait, extraDone, lastAdd>>]_vars
    /\ [](\A x \in Waiters :
            (Running /\ wait[x] = "idle") => ENABLED WgWait(x))
    /\ [](\A w \in Workers :
            (Running /\ wst[w] = "exiting") => ENABLED WorkerDone(w))
    /\ [](\A w \in Workers :
            (Running /\ wst[w] = "new") => ENABLED WgAdd({w}))
    /\ [][\A x \in Waiters : (wait[x] = "idle" /\ wait'[x] # "idle") =>
            (/\ WgWait(x)
             /\ wait'[x] = (IF wgN = 0 THEN "returned" ELSE "blocked"))]_vars
    /\ [][wgN' > wgN =>
            \E S \in SUBSET Workers : WgAdd(S) /\ wgN' = wgN + Cardinality(S)]_vars
    /\ [][wgN' < wgN =>
            (/\ ExtraDone \/ \E w \in Workers : WorkerDone(w)
             /\ wgN' = wgN - 1)]_vars

\* with the event still pending, a worker has called Done() and Wait() has
\* returned with the counter at 0
TrackerIndependentWitness ==
    /\ ~Fired
    /\ fires = 0
    /\ \E w \in Workers : wst[w] = "done"
    /\ \E x \in Waiters : wait[x] = "returned"
    /\ wgN = 0

\* C19: however many sends occur, the dispatcher receives at most one value
\* from sigch: only its receive step takes a value out of sigch, that step
\* occurs only with nothing received before, and once past it the goroutine
\* fires the event and ends without receiving again.
AtMostOneReceive ==
    /\ [](recvs <= 1)
    /\ [](recvs = 1 <=> dpc \in {"fire", "stop", "exited"})
    /\ [](dpc = "exited" => (recvs = 1 /\ fires = 1))
    /\ [][(recvs' # recvs \/ Len(sigch'.buf) < Len(sigch.buf))
            => (DispatcherRecv /\ recvs = 0 /\ recvs' = 1)]_vars
    /\ [][dpc = "exited" => dpc' = "exited"]_vars

\* the dispatcher has ended after its one receive, while a later send was
\* buffered and one more was dropped
AtMostOneReceiveWitness ==
    /\ dpc = "exited"
    /\ recvs = 1
    /\ Len(sigch.buf) = 1
    /\ lastSend = "dropped"
    /\ Running

\* C20 as stated: a value sent after the dispatcher has drained sigch is
\* picked up by the dispatcher (as long as the process runs).
LateSendPickedUp ==
    []Running =>
       ((recvs >= 1 /\ Len(sigch.buf) > 0)
           ~> (recvs >= 2 \/ Len(sigch.buf) = 0))

\* C20, amended: a value sent after the dispatcher has drained sigch is
\* picked up by nobody: the dispatcher's receive is never enabled again, so
\* the value stays buffered and later sends are dropped; and such a send has
\* no functional effect: the event, the count of fires and the reason stay
\* as they are.
LateSendStaysQueued ==
    /\ [](recvs >= 1 => ~ENABLED DispatcherRecv)
    /\ [][recvs >= 1 =>
            (recvs' = recvs /\ Len(sigch'.buf) >= Len(sigch.buf))]_vars
    /\ [][(recvs >= 1 /\ Len(sigch.buf) > 0) => sigch' = sigch]_vars
    /\ [][((InitiateManual \/ \E sig \in Signals : SignalDeliver(sig)) /\ recvs >= 1)
            => (c' = c /\ fires' = fires /\ ctxErr' = ctxErr /\ dpc' = dpc)]_vars

\* InitiateManual() was called after the dispatcher had ended: its value
\* sits in sigch, the event having fired once
LateSendStaysQueuedWitness ==
    /\ dpc = "exited"
    /\ Fired
    /\ fires = 1
    /\ ~sigSeen
    /\ lastSend = "sent"
    /\ sigch.buf = <<"SIGTERM">>
    /\ Running

\* C21: the subscription is cancelled only after the event has fired: in
\* every state where signal.Stop has run the event has fired, the step that
\* cancels it is the dispatcher's last one, and while the event is pending
\* no signal gets the default disposition, whether the value the dispatcher
\* received came from a signal or from InitiateManual().
StopAfterFire ==
    /\ [](~subscribed => Fired)
    /\ [](~Fired => proc # "killed")
    /\ [][(subscribed /\ ~subscribed') => (DispatcherStop /\ Fired)]_vars
    /\ [][((\E sig \in Signals : SignalDeliver(sig)) /\ ~Fired)
            => (proc' = "running" /\ lastSend' = SendOutcome(sigch))]_vars

\* shutdown was triggered by InitiateManual() alone; after the event fired
\* and signal.Stop ran, a signal got the default disposition
StopAfterFireWitness ==
    /\ ~subscribed
    /\ Fired
    /\ ~sigSeen
    /\ s = "SIGTERM"
    /\ proc = "killed"

\* C22: InitiateManual() is asynchronous: the call itself leaves the event
\* and the dispatcher where they are; while a send has been made and the
\* event is still pending, a call of Initiated() returns false; and the
\* event becomes fired only by the dispatcher's fire step, after its receive.
ManualAsync ==
    /\ [][InitiateManual => (Fired' = Fired /\ dpc' = dpc /\ fires' = fires)]_vars
    /\ [](Running /\ SendAttempted /\ ~Fired
            => ENABLED (Initiated /\ lastInitiated' = "false"))
    /\ [](polledPending => (SendAttempted /\ ~Fired /\ lastInitiated = "false"))
    /\ [][(~Fired /\ Fired') => (DispatcherFire /\ recvs = 1)]_vars

\* InitiateManual() has returned, no signal was involved, and an Initiated()
\* call made afterwards has returned false
ManualAsyncWitness ==
    /\ polledPending
    /\ ~sigSeen
    /\ lastSend = "sent"
    /\ lastInitiated = "false"
    /\ ~Fired
    /\ Running

\* C23: with the Initiated() loop guard each worker starts at most one job
\* after the event has fired, and only in the window between a guard check
\* that returned false and its select; a guard check made with the event
\* fired leads to the cleanup, from where no further job is started; and
\* the worker's deferred Wg.Done() runs once, never panicking.
GuardedAtMostOneLate ==
    /\ [](\A w \in Workers : lateJobs[w] <= 1)
    /\ [][\A w \in Workers : lateJobs'[w] # lateJobs[w] =>
            (/\ GuardedSelect(w)
             /\ wpc[w] = "select"
             /\ Fired
             /\ lateJobs[w] = 0)]_vars
    /\ [][\A w \in Workers : (wpc[w] = "loop" /\ wpc'[w] # "loop" /\ Fired) =>
            (GuardCheck(w) /\ wpc'[w] = "cleanup")]_vars
    /\ [][\A w \in Workers : wpc[w] = "cleanup" =>
            (wpc'[w] = "cleanup" /\ lateJobs'[w] = lateJobs[w])]_vars
    /\ [][\A w \in Workers : wst'[w] # wst[w] =>
            \/ wst[w] = "new" /\ wst'[w] = "running"
            \/ wst[w] = "running" /\ wst'[w] = "exiting" /\ wpc[w] = "cleanup"
            \/ wst[w] = "exiting" /\ wst'[w] = "done" /\ WorkerDone(w)
                                  /\ wgN' = wgN - 1]_vars
    /\ [](proc # "panicked")

\* a guarded worker took one job in the window, after the event had fired,
\* then found Initiated() true, cleaned up and called Done()
GuardedAtMostOneLateWitness ==
    \E w \in Workers :
        /\ lateJobs[w] = 1
        /\ wpc[w] = "cleanup"
        /\ wst[w] = "done"
        /\ Running

\* C24: no trigger is lost by dropping: whenever a send on sigch has been
\* attempted, sigch holds a value or the dispatcher has received one; so a
\* send is dropped only with the slot occupied, and never is a send
\* attempted, sigch empty and the dispatcher still before its first receive.
NoTriggerLost ==
    /\ [](SendAttempted => (Len(sigch.buf) = SigchCap \/ recvs >= 1))
    /\ [](~(SendAttempted /\ Len(sigch.buf) = 0 /\ dpc \in {"spawned", "recv"}))
    /\ [][((InitiateManual \/ (subscribed /\ \E sig \in Signals : SignalDeliver(sig)))
              /\ lastSend' = "dropped")
            => (Len(sigch.buf) = SigchCap /\ sigch' = sigch)]_vars
    /\ [](lastSend = "dropped" => (Len(sigch.buf) = SigchCap \/ recvs >= 1))

\* a send was dropped before the dispatcher goroutine had even started,
\* the first request still sitting in sigch
NoTriggerLostWitness ==
    /\ lastSend = "dropped"
    /\ Len(sigch.buf) = SigchCap
    /\ recvs = 0
    /\ dpc = "spawned"
====
